---- MODULE Spec2Model ----
(***************************************************************************)
(* A model of the pushshift user segmenter: the builder (src/main.rs), the *)
(* migration tool (src/migrate.rs) and the word-frequency maps             *)
(* (src/text/text_item.rs).                                                *)
(*                                                                         *)
(* Bytes and characters are numbers (a byte 0..255, a character its code   *)
(* point), byte strings are sequences of bytes, and a u64 is its eight     *)
(* little-endian bytes, so that 64-bit overflow is computed exactly.       *)
(***************************************************************************)
EXTENDS Integers, Sequences, FiniteSets, TLC

(***************************************************************************)
(* Bounds of the model.                                                    *)
(***************************************************************************)
\* the largest number of valid records one input file holds
MaxRecords == 3
\* the batch sizes tried beside the builder's own (PerIterRef) are 1..MaxPerIter
MaxPerIter == 2
\* the longest byte source read_until is run on
MaxSrcLen == 4
\* the most fill_buf failures of kind Interrupted in one run of the reader
MaxInterrupts == 2
\* the most calls of read_until on an exhausted source
MaxEofCalls == 2
\* the most input files of a directory
MaxFiles == 2
\* the most runs of the builder over one directory
MaxRuns == 2
\* the most maps merged one after another into a Corpus with counts near u64::MAX
MaxMerges == 2
MaxTextLen == 3

(***************************************************************************)
(* Program constants.                                                      *)
(***************************************************************************)
\* main.rs:113  let per_iter = 10000usize;
PerIterRef == 10000
\* main.rs:132 and main.rs:144  if err_cnt > 10
ErrThreshold == 10
\* text_item.rs:15  PooMapInner = PooMapBase<u64>: a count is 8 bytes wide
U64Bytes == 8
\* main.rs:123  read_until(&mut decoder, b'\n', &mut line)
Delim == 10

(***************************************************************************)
(* u64 arithmetic on little-endian bytes.                                  *)
(***************************************************************************)
RECURSIVE ToLE(_, _)
ToLE(n, width) ==
    IF width = 0 THEN <<>> ELSE <<n % 256>> \o ToLE(n \div 256, width - 1)

\* the u64 of a small natural
U64(n) == ToLE(n, U64Bytes)

\* the number little-endian bytes stand for (for numbers far below 2^31)
RECURSIVE U64ToNat(_)
U64ToNat(c) == IF c = <<>> THEN 0 ELSE c[1] + 256 * U64ToNat(Tail(c))

\* u64::MAX, 2^64 - 1
U64Max == [b \in 1..U64Bytes |-> 255]

\* u64::MAX - 1
U64MaxLess1 == [b \in 1..U64Bytes |-> IF b = 1 THEN 254 ELSE 255]

\* the carry into byte b of a + c (carry[1] = 0), and out of the last byte
RECURSIVE Carry(_, _, _)
Carry(a, c, b) ==
    IF b = 1 THEN 0 ELSE (a[b - 1] + c[b - 1] + Carry(a, c, b - 1)) \div 256

\* a + c does not fit 64 bits
Overflows(a, c) == Carry(a, c, U64Bytes + 1) = 1

\* a + c modulo 2^64: what `+=` stores when overflow checks are off
WrappingAdd(a, c) ==
    [b \in 1..U64Bytes |-> (a[b] + c[b] + Carry(a, c, b)) % 256]

\* a < c as numbers: compare from the most significant byte down
RECURSIVE LessFrom(_, _, _)
LessFrom(a, c, b) ==
    IF b = 0 THEN FALSE
    ELSE IF a[b] # c[b] THEN a[b] < c[b]
    ELSE LessFrom(a, c, b - 1)

U64Less(a, c) == LessFrom(a, c, U64Bytes)

(***************************************************************************)
(* Byte strings (Vec<u8>) and the ordered maps keyed by them.              *)
(* text_item.rs:13-16: PooMapInner = BTreeMap<Vec<u8>, u64>,               *)
(* PooMap = BTreeMap<Vec<u8>, PooMapInner>.  A map is a function whose      *)
(* domain is its key set; iteration is in the keys' lexicographic order.   *)
(***************************************************************************)
\* Ord for Vec<u8>: lexicographic, a proper prefix first
RECURSIVE BytesLess(_, _)
BytesLess(x, y) ==
    IF y = <<>> THEN FALSE
    ELSE IF x = <<>> THEN TRUE
    ELSE IF x[1] # y[1] THEN x[1] < y[1]
    ELSE BytesLess(Tail(x), Tail(y))

MinKey(keys) == CHOOSE x \in keys : \A y \in keys \ {x} : BytesLess(x, y)

\* BTreeMap::iter: the keys in ascending order
RECURSIVE SortedKeys(_)
SortedKeys(keys) ==
    IF keys = {} THEN <<>>
    ELSE LET x == MinKey(keys) IN <<x>> \o SortedKeys(keys \ {x})

\* BTreeMap::new()
MapNew == <<>>

\* `+=` on u64 (AddAssign); see Overflows for the sums that do not fit
AddAssign(a, c) == WrappingAdd(a, c)

\* map.entry(key).or_insert(0).add_assign(freq)
EntryAddAssign(map, key, freq) ==
    [w \in DOMAIN map \cup {key} |->
        IF w = key
        THEN AddAssign(IF key \in DOMAIN map THEN map[key] ELSE U64(0), freq)
        ELSE map[w]]

\* for (word, freq) in freqs.iter() { author_map.entry(word).or_insert(0) += freq }
\* over the words `order` (freqs' keys in iteration order)
RECURSIVE AddWords(_, _, _)
AddWords(author_map, freqs, order) ==
    IF order = <<>> THEN author_map
    ELSE AddWords(EntryAddAssign(author_map, order[1], freqs[order[1]]),
                  freqs, Tail(order))

\* acc.entry(author).or_insert_with(PooMapInner::new), then the loop over freqs
MergeAuthor(acc, author, freqs) ==
    LET author_map == IF author \in DOMAIN acc THEN acc[author] ELSE MapNew
        summed == AddWords(author_map, freqs, SortedKeys(DOMAIN freqs))
    IN  [a \in DOMAIN acc \cup {author} |-> IF a = author THEN summed ELSE acc[a]]

\* for (author, freqs) in other.iter() { ... } over the authors `order`
RECURSIVE MergeAuthors(_, _, _)
MergeAuthors(acc, other, order) ==
    IF order = <<>> THEN acc
    ELSE MergeAuthors(MergeAuthor(acc, order[1], other[order[1]]),
                      other, Tail(order))

\* the fold closure creating the author's entry inside the loop over freqs:
\* an item without words leaves acc as it is
FoldOpInsideLoop(acc, item) ==
    IF DOMAIN item[2] = {} THEN acc ELSE MergeAuthor(acc, item[1], item[2])

\* the fold closure of run_for_file: one (author, freqs) item into a worker's map
FoldOp(acc, item) == MergeAuthor(acc, item[1], item[2])

\* the reduce closure with `or_insert(*freq)` and no add: a word acc already
\* holds keeps acc's count
ReduceOpNoAdd(acc, all_freqs) ==
    [a \in DOMAIN acc \cup DOMAIN all_freqs |->
        IF a \notin DOMAIN all_freqs THEN acc[a]
        ELSE IF a \notin DOMAIN acc THEN all_freqs[a]
        ELSE [w \in DOMAIN acc[a] \cup DOMAIN all_freqs[a] |->
                IF w \in DOMAIN acc[a] THEN acc[a][w] ELSE all_freqs[a][w]]]

\* the reduce closure of run_for_file: all_freqs merged into acc
ReduceOp(acc, all_freqs) ==
    MergeAuthors(acc, all_freqs, SortedKeys(DOMAIN all_freqs))

\* TextItem::ingest: other merged into self.word_freqs
ingest(word_freqs_, other) ==
    MergeAuthors(word_freqs_, other, SortedKeys(DOMAIN other))

(***************************************************************************)
(* TextItem::process_alt, on texts whose characters are below U+0100.      *)
(***************************************************************************)
\* char::is_alphanumeric (Alphabetic, or general category Nd, Nl, No)
IsAlphanumeric(c) ==
    \/ c \in 48..57 \/ c \in 65..90 \/ c \in 97..122
    \/ c \in {170, 178, 179, 181, 185, 186, 188, 189, 190}
    \/ c \in (192..214) \cup (216..246) \cup (248..255)

\* char::is_whitespace (White_Space)
IsWhitespace(c) == c \in (9..13) \cup {32, 133, 160}

\* one character of str::to_lowercase
LowerChar(c) ==
    IF c \in (65..90) \cup (192..214) \cup (216..222) THEN c + 32 ELSE c

\* str::to_lowercase
ToLowercase(s) == [n \in 1..Len(s) |-> LowerChar(s[n])]

\* str::split_whitespace: the maximal runs of non-whitespace, in order
RECURSIVE SplitWhitespace(_, _)
SplitWhitespace(s, word) ==
    IF s = <<>> THEN (IF word = <<>> THEN <<>> ELSE <<word>>)
    ELSE IF IsWhitespace(s[1])
         THEN (IF word = <<>> THEN <<>> ELSE <<word>>) \o SplitWhitespace(Tail(s), <<>>)
         ELSE SplitWhitespace(Tail(s), Append(word, s[1]))

\* str::trim
RECURSIVE TrimStart(_)
TrimStart(s) ==
    IF s # <<>> /\ IsWhitespace(s[1]) THEN TrimStart(Tail(s)) ELSE s

RECURSIVE TrimEnd(_)
TrimEnd(s) ==
    IF s # <<>> /\ IsWhitespace(s[Len(s)])
    THEN TrimEnd(SubSeq(s, 1, Len(s) - 1)) ELSE s

Trim(s) == TrimEnd(TrimStart(s))

\* str::as_bytes: the UTF-8 encoding
RECURSIVE AsBytes(_)
AsBytes(s) ==
    IF s = <<>> THEN <<>>
    ELSE (IF s[1] < 128 THEN <<s[1]>>
          ELSE <<192 + (s[1] \div 64), 128 + (s[1] % 64)>>) \o AsBytes(Tail(s))

\* the fold of process_alt with insert(word, 1) for the closure's body
RECURSIVE CountWordsInsert(_, _)
CountWordsInsert(acc, words) ==
    IF words = <<>> THEN acc
    ELSE CountWordsInsert([w \in DOMAIN acc \cup {AsBytes(Trim(words[1]))} |->
                              IF w = AsBytes(Trim(words[1])) THEN U64(1) ELSE acc[w]],
                          Tail(words))

\* the fold of process_alt over the words
RECURSIVE CountWords(_, _)
CountWords(acc, words) ==
    IF words = <<>> THEN acc
    ELSE CountWords(EntryAddAssign(acc, AsBytes(Trim(words[1])), U64(1)), Tail(words))

process_alt(text) ==
    CountWords(MapNew,
               SplitWhitespace(
                   ToLowercase(SelectSeq(text, LAMBDA c : IsAlphanumeric(c) \/ IsWhitespace(c))),
                   <<>>))

(***************************************************************************)
(* The builder's run_for_file (main.rs:61-243) on one input file.          *)
(*                                                                         *)
(* The lines of the file are produced as the driver reads them: a line is  *)
(* a record that decodes (author, body), a line that does not decode, or   *)
(* the zero-length line of an exhausted source; a read may also fail with  *)
(* an I/O error.  len_read and i only feed the progress bar.               *)
(***************************************************************************)
VARIABLES
    per_iter,     \* the batch size (main.rs:113)
    pc,           \* "Reading" (loop 'a/'b), "Fold", "Reduce", "Encoding", "Created",
                  \* "Serialized", "Done", "Panicked"
    k,            \* iterations of `for _ in 0..per_iter` done in this batch
    comments,     \* the batch being read: Vec<(String, String)>
    err_cnt,      \* main.rs:115
    word_freqs,   \* ti.word_freqs, the global Corpus
    todo,         \* items of the batch no worker has folded yet
    partials,     \* the workers' partial maps
    eof,          \* the source is exhausted
    exit,         \* how loop 'a was left: "none", "io", "budget"
    encoded,      \* the Corpus handed to serialize_with_writer, once it was
    accepted,     \* history: the records decoded so far, in file order
    merged,       \* history: the records of the batches handed to ingest
    late_valid,   \* history: a record was decoded after a soft failure
    malformed,    \* history: the lines read that did not decode
    empty         \* history: the zero-length lines read

driverVars == <<per_iter, pc, k, comments, err_cnt, word_freqs, todo, partials,
                eof, exit, encoded, accepted, merged, late_valid, malformed, empty>>

(***************************************************************************)
(* read_until (main.rs:31-59) over a buffered reader.                      *)
(***************************************************************************)
VARIABLES
    src,          \* the bytes the underlying source yields, in all
    pos,          \* bytes of src consumed from the reader so far
    avail,        \* bytes the reader holds buffered after pos
    buf,          \* the caller's Vec<u8>
    buf0,         \* history: buf as it was when the call began
    read,         \* main.rs:33
    rpc,          \* "idle", "loop" (inside read_until), "returned"
    result,       \* of the last call: "none", "ok", "err"
    ret,          \* the count of the last Ok(read)
    slices,       \* history: the bytes each call that returned Ok appended
    iters,        \* history: loop iterations of this call that reached consume
    interrupts    \* fill_buf failures of kind Interrupted so far

readerVars ==
    <<src, pos, avail, buf, buf0, read, rpc, result, ret, slices, iters, interrupts>>

(***************************************************************************)
(* The two mains (main.rs:245-284, migrate.rs:104-161), the directory they *)
(* work on, and the migrator's run_for_file (migrate.rs:30-102).           *)
(***************************************************************************)
VARIABLES
    disk,         \* the directory: file name -> content
    files,        \* the sorted Vec<DirEntry>, what for_each has yet to visit
    mpc,          \* where main (or the migrator's run_for_file) stands
    run,          \* the number of this run of the tool
    ran,          \* history: run -> the files passed to run_for_file in it
    completed,    \* history: the runs in which main returned
    ran_existing, \* history: run_for_file was called on a file whose output existed
    cur,          \* migrate.rs:30 path
    mbuf,         \* migrate.rs:39 buf
    poo,          \* migrate.rs:49 poo
    done,         \* history: the files the migrator's run_for_file returned from
    created       \* history: the paths the migrator passed to File::create

fsVars == <<disk, files, mpc, run, ran, completed, ran_existing, cur, mbuf, poo,
            done, created>>

\* what a specification that is not about a main leaves alone
FsIdle ==
    /\ disk = <<>>
    /\ files = <<>>
    /\ mpc = "idle"
    /\ run = 1
    /\ ran = <<>>
    /\ completed = {}
    /\ ran_existing = FALSE
    /\ cur = <<>>
    /\ mbuf = <<>>
    /\ poo = <<>>
    /\ done = {}
    /\ created = {}

(***************************************************************************)
(* TextItem::ingest (text_item.rs:30-44) called on a TextItem whose counts *)
(* may be near u64::MAX (word_freqs is a public field of a type that is    *)
(* Deserialize, and ingest takes any PooMap).                              *)
(***************************************************************************)
VARIABLES
    ti_freqs,     \* self.word_freqs
    ti_before,    \* history: self.word_freqs before the last call
    ti_other,     \* history: the argument of the last call
    ti_calls,     \* history: the number of calls
    ti_panicked   \* the last call panicked (attempt to add with overflow)

tiVars == <<ti_freqs, ti_before, ti_other, ti_calls, ti_panicked>>

\* what a specification that is not about ingest alone leaves alone
TiIdle ==
    /\ ti_freqs = <<>>
    /\ ti_before = <<>>
    /\ ti_other = <<>>
    /\ ti_calls = 0
    /\ ti_panicked = FALSE

\* what a specification that is not about the driver leaves alone
DriverIdle ==
    /\ per_iter = PerIterRef
    /\ pc = "Idle"
    /\ k = 0
    /\ comments = <<>>
    /\ err_cnt = 0
    /\ word_freqs = <<>>
    /\ todo = <<>>
    /\ partials = <<>>
    /\ eof = FALSE
    /\ exit = "none"
    /\ encoded = "none"
    /\ accepted = <<>>
    /\ merged = <<>>
    /\ late_valid = FALSE
    /\ malformed = 0
    /\ empty = 0

\* what a specification that is not about read_until leaves alone
ReaderIdle ==
    /\ src = <<>>
    /\ pos = 0
    /\ avail = 0
    /\ buf = <<>>
    /\ buf0 = <<>>
    /\ read = 0
    /\ rpc = "idle"
    /\ result = "none"
    /\ ret = 0
    /\ slices = <<>>
    /\ iters = 0
    /\ interrupts = 0

(***************************************************************************)
(* The encoder of the destination file of the run_for_file under way       *)
(* (main.rs:216-242, migrate.rs:75-101).                                   *)
(***************************************************************************)
VARIABLES
    ser_result,   \* what serialize_with_writer returned: "none", "ok", "err"
    finish_calls  \* history: calls of encoder.finish() on this encoder

encVars == <<ser_result, finish_calls>>

\* no encoder has been created
EncIdle ==
    /\ ser_result = "none"
    /\ finish_calls = 0

(***************************************************************************)
(* TextItem::process_alt (text_item.rs:47-69) called on one text.          *)
(***************************************************************************)
VARIABLES
    in_text,      \* text, the argument, a sequence of chars (code points)
    tpc,          \* "idle", "called", "returned"
    word_count    \* the PooMapInner returned

tokVars == <<in_text, tpc, word_count>>

\* what a specification that is not about the tokenizer alone leaves alone
TokIdle ==
    /\ in_text = <<>>
    /\ tpc = "idle"
    /\ word_count = <<>>

\* what the steps of one part that do not touch the encoder leave alone
notDriver == <<readerVars, fsVars, tiVars, tokVars, encVars>>
notReader == <<driverVars, fsVars, tiVars, tokVars, encVars>>
notFs == <<driverVars, readerVars, tiVars, tokVars, encVars>>
notTi == <<driverVars, readerVars, fsVars, tokVars, encVars>>
notTok == <<driverVars, readerVars, fsVars, tiVars, encVars>>

\* the authors and bodies of the records tried: "u", "v"; "A, a b!", "!"
Authors == {<<117>>, <<118>>}
Bodies == {<<65, 44, 32, 97, 32, 98, 33>>, <<33>>}
\* Comment { author, body } (main.rs:24-29): the records tried, "u" with
\* either body and "v" with the first
Comment == [author : Authors, body : Bodies] \ {[author |-> <<118>>, body |-> <<33>>]}

\* the batch sizes tried: the builder's own and a few small ones
PerIters == (1..MaxPerIter) \cup {PerIterRef}

\* the state at main.rs:117, before the first batch
DriverInit ==
    /\ per_iter \in PerIters
    /\ pc = "Reading"
    /\ k = 0
    /\ comments = <<>>
    /\ err_cnt = 0
    /\ word_freqs = MapNew
    /\ todo = <<>>
    /\ partials = <<>>
    /\ eof = FALSE
    /\ exit = "none"
    /\ encoded = "none"
    /\ accepted = <<>>
    /\ merged = <<>>
    /\ late_valid = FALSE
    /\ malformed = 0
    /\ empty = 0

\* the end of one iteration of loop 'b that did not break: the batch is
\* complete after per_iter iterations and goes to the workers
NextIteration(batch) ==
    /\ k' = k + 1
    /\ comments' = batch
    /\ IF k + 1 = per_iter
       THEN pc' = "Fold" /\ todo' = batch
       ELSE pc' = "Reading" /\ todo' = todo

\* main.rs:123-127: read_until fails; break 'a
ReadIoError ==
    /\ pc = "Reading"
    /\ pc' = "Encoding"
    /\ exit' = "io"
    /\ UNCHANGED <<per_iter, k, comments, err_cnt, word_freqs, todo, partials,
                   eof, encoded, accepted, merged, late_valid, malformed, empty>>
    /\ UNCHANGED notDriver

\* main.rs:129-137 without the test of line.len(): the zero-length line goes
\* to the decoder, and its failure is not counted
ReadEmptyUncounted ==
    /\ pc = "Reading"
    /\ eof' = TRUE
    /\ NextIteration(comments)
    /\ UNCHANGED <<per_iter, err_cnt, word_freqs, partials, exit, encoded,
                   accepted, merged, late_valid, malformed, empty>>
    /\ UNCHANGED notDriver

\* main.rs:129-137: a zero-length line; break 'a over the budget, else break 'b
ReadEmpty ==
    /\ pc = "Reading"
    /\ eof' = TRUE
    /\ err_cnt' = err_cnt + 1
    /\ IF err_cnt + 1 > ErrThreshold
       THEN pc' = "Encoding" /\ exit' = "budget" /\ todo' = todo
       ELSE pc' = "Fold" /\ exit' = exit /\ todo' = comments
    /\ empty' = empty + 1
    /\ UNCHANGED <<per_iter, k, comments, word_freqs, partials, encoded,
                   accepted, merged, late_valid, malformed>>
    /\ UNCHANGED notDriver

\* main.rs:139-140, 152-153: the line decodes; push it
ReadRecord(x) ==
    /\ pc = "Reading"
    /\ ~eof
    /\ Len(accepted) < MaxRecords
    /\ accepted' = Append(accepted, <<x.author, x.body>>)
    /\ late_valid' = (late_valid \/ err_cnt > 0)
    /\ NextIteration(Append(comments, <<x.author, x.body>>))
    /\ UNCHANGED <<per_iter, err_cnt, word_freqs, partials, eof, exit, encoded, merged, malformed, empty>>
    /\ UNCHANGED notDriver

\* main.rs:141-149 without err_cnt += 1
ReadMalformedUncounted ==
    /\ pc = "Reading"
    /\ ~eof
    /\ malformed < ErrThreshold + 1
    /\ malformed' = malformed + 1
    /\ NextIteration(comments)
    /\ UNCHANGED <<per_iter, err_cnt, word_freqs, partials, eof, exit, encoded,
                   accepted, merged, late_valid, empty>>
    /\ UNCHANGED notDriver

\* main.rs:141-149: the line does not decode; break 'a over the budget, else continue
ReadMalformed ==
    /\ pc = "Reading"
    /\ ~eof
    /\ err_cnt' = err_cnt + 1
    /\ IF err_cnt + 1 > ErrThreshold
       THEN /\ pc' = "Encoding" /\ exit' = "budget"
            /\ UNCHANGED <<k, comments, todo>>
       ELSE /\ exit' = exit
            /\ NextIteration(comments)
    /\ malformed' = malformed + 1
    /\ UNCHANGED <<per_iter, word_freqs, partials, eof, encoded, accepted,
                   merged, late_valid, empty>>
    /\ UNCHANGED notDriver

\* process_alt and as_bytes of the bodies and authors tried, computed once
BodyFreqs == [t \in Bodies |-> process_alt(t)]
AuthorKey == [a \in Authors |-> AsBytes(a)]

\* main.rs:159-163: the map closure, on the next item:
\* (author.as_bytes().to_vec(), TextItem::process_alt(&comment))
MapItem(c) == <<AuthorKey[c[1]], BodyFreqs[c[2]]>>

\* main.rs:164-181: another worker starts a partial map (PooMap::new()) with
\* the next item
FoldNew ==
    /\ pc = "Fold"
    /\ todo # <<>>
    /\ partials' = Append(partials, FoldOp(MapNew, MapItem(Head(todo))))
    /\ todo' = Tail(todo)
    /\ UNCHANGED <<per_iter, pc, k, comments, err_cnt, word_freqs, eof, exit,
                   encoded, accepted, merged, late_valid, malformed, empty>>
    /\ UNCHANGED notDriver

\* main.rs:164-181 with the workers folding into ti.word_freqs
FoldIntoShared ==
    /\ pc = "Fold"
    /\ todo # <<>>
    /\ partials # <<>>
    /\ word_freqs' = FoldOp(word_freqs, MapItem(Head(todo)))
    /\ todo' = Tail(todo)
    /\ UNCHANGED <<per_iter, pc, k, comments, err_cnt, partials, eof, exit,
                   encoded, accepted, merged, late_valid, malformed, empty>>
    /\ UNCHANGED notDriver

\* main.rs:164-181: the worker that folded the item before folds the next one
\* into its partial map (a worker folds a contiguous part of the batch)
FoldInto ==
    /\ pc = "Fold"
    /\ todo # <<>>
    /\ partials # <<>>
    /\ partials' = [partials EXCEPT ![Len(partials)] = FoldOp(@, MapItem(Head(todo)))]
    /\ todo' = Tail(todo)
    /\ UNCHANGED <<per_iter, pc, k, comments, err_cnt, word_freqs, eof, exit,
                   encoded, accepted, merged, late_valid, malformed, empty>>
    /\ UNCHANGED notDriver

\* every item is folded: the partial maps go to reduce
FoldDone ==
    /\ pc = "Fold"
    /\ todo = <<>>
    /\ pc' = "Reduce"
    /\ UNCHANGED <<per_iter, k, comments, err_cnt, word_freqs, todo, partials,
                   eof, exit, encoded, accepted, merged, late_valid, malformed, empty>>
    /\ UNCHANGED notDriver

\* a sequence without its j-th element
Without(seq, j) == SubSeq(seq, 1, j - 1) \o SubSeq(seq, j + 1, Len(seq))

\* main.rs:182-201: two partial maps are combined, partials[j] into partials[n]
ReduceStep(n, j) ==
    /\ pc = "Reduce"
    /\ n # j
    /\ partials' = Without([partials EXCEPT ![n] = ReduceOp(@, partials[j])], j)
    /\ UNCHANGED <<per_iter, pc, k, comments, err_cnt, word_freqs, todo, eof,
                   exit, encoded, accepted, merged, late_valid, malformed, empty>>
    /\ UNCHANGED notDriver

\* the value of .reduce(|| PooMap::new(), ...): the identity when the batch is empty
Reduced == IF partials = <<>> THEN MapNew ELSE ReduceOp(MapNew, partials[1])

\* main.rs:156-204: the parallel phase is over; ti.ingest(&reduced); next batch
Ingest ==
    /\ pc = "Reduce"
    /\ Len(partials) <= 1
    /\ \E reduced \in {Reduced} : word_freqs' = ingest(word_freqs, reduced)
    /\ merged' = merged \o comments
    /\ pc' = "Reading"
    /\ k' = 0
    /\ comments' = <<>>
    /\ partials' = <<>>
    /\ UNCHANGED <<per_iter, err_cnt, todo, eof, exit, encoded, accepted, late_valid, malformed, empty>>
    /\ UNCHANGED notDriver

\* main.rs:207-216: File::create and Encoder::new
EncodeCreate ==
    /\ pc = "Encoding"
    /\ pc' = "Created"
    /\ ser_result' = "none"
    /\ finish_calls' = 0
    /\ UNCHANGED <<per_iter, k, comments, err_cnt, word_freqs, todo, partials,
                   eof, exit, encoded, accepted, merged, late_valid, malformed, empty>>
    /\ UNCHANGED <<readerVars, fsVars, tiVars, tokVars>>

\* main.rs:207-216: File::create or Encoder::new fails; unwrap panics
EncodeCreatePanics ==
    /\ pc = "Encoding"
    /\ pc' = "Panicked"
    /\ UNCHANGED <<per_iter, k, comments, err_cnt, word_freqs, todo, partials,
                   eof, exit, encoded, accepted, merged, late_valid, malformed, empty>>
    /\ UNCHANGED notDriver

\* main.rs:220-238 returning early when serialize_with_writer fails
AfterSerializeReturning(r) == IF r = "err" THEN "Done" ELSE "Serialized"

\* main.rs:220-238: where run_for_file stands after serialize_with_writer
\* returned r; map_err prints an error and the result is dropped
AfterSerialize(r) == "Serialized"

\* main.rs:220-238: serialize_with_writer(&ti.word_freqs, &mut encoder, ..)
\* returns Ok or Err
SerializeCall(r) ==
    /\ pc = "Created"
    /\ encoded' = word_freqs
    /\ ser_result' = r
    /\ pc' = AfterSerialize(r)
    /\ UNCHANGED finish_calls
    /\ UNCHANGED <<per_iter, k, comments, err_cnt, word_freqs, todo, partials,
                   eof, exit, accepted, merged, late_valid, malformed, empty>>
    /\ UNCHANGED <<readerVars, fsVars, tiVars, tokVars>>

\* main.rs:240-243: encoder.finish(), its error printed; run_for_file returns
Finish ==
    /\ pc = "Serialized"
    /\ finish_calls' = finish_calls + 1
    /\ pc' = "Done"
    /\ UNCHANGED ser_result
    /\ UNCHANGED <<per_iter, k, comments, err_cnt, word_freqs, todo, partials,
                   eof, exit, encoded, accepted, merged, late_valid, malformed, empty>>
    /\ UNCHANGED <<readerVars, fsVars, tiVars, tokVars>>

DriverNext ==
    \/ ReadIoError
    \/ ReadEmpty
    \/ \E x \in Comment : ReadRecord(x)
    \/ ReadMalformed
    \/ FoldNew
    \/ FoldInto
    \/ FoldDone
    \/ \E n, j \in 1..Len(partials) : ReduceStep(n, j)
    \/ Ingest
    \/ EncodeCreate
    \/ EncodeCreatePanics
    \/ \E r \in {"ok", "err"} : SerializeCall(r)
    \/ Finish

(***************************************************************************)
(* read_until (main.rs:31-59).  The reader r is a BufRead over the source: *)
(* fill_buf returns the bytes it holds buffered or, holding none, reads    *)
(* the source, which may deliver any non-zero part of what is left (a      *)
(* short read), nothing at end-of-input, or fail.                          *)
(***************************************************************************)
\* the bytes of the sources tried: the delimiter and "a"
SrcBytes == {Delim, 97}

RECURSIVE SeqsUpTo(_, _)
SeqsUpTo(S, n) ==
    IF n = 0 THEN {<<>>}
    ELSE LET shorter == SeqsUpTo(S, n - 1)
         IN  shorter \cup {Append(q, x) : q \in shorter, x \in S}

Sources == SeqsUpTo(SrcBytes, MaxSrcLen)

\* what buf holds when read_until is called: the driver passes Vec::new()
\* (main.rs:121); a caller may pass a Vec that already holds bytes
Buf0s == {<<>>, <<97, Delim>>}

ReaderInit ==
    /\ src \in Sources
    /\ pos = 0
    /\ avail = 0
    /\ buf = <<>>
    /\ buf0 = <<>>
    /\ read = 0
    /\ rpc = "idle"
    /\ result = "none"
    /\ ret = 0
    /\ slices = <<>>
    /\ iters = 0
    /\ interrupts = 0

\* core::slice::memchr::memchr(delim, available): the first index holding
\* delim, counted from 1; 0 for None
Memchr(delim, available) ==
    LET hits == {n \in 1..Len(available) : available[n] = delim}
    IN  IF hits = {} THEN 0 ELSE CHOOSE n \in hits : \A m \in hits : n <= m

\* main.rs:41-50 with `available[..i]` for `available[..=i]`: the delimiter is
\* consumed and not appended
ScanExclusive(available) ==
    LET n == Memchr(Delim, available)
    IN  IF n > 0
        THEN [append |-> SubSeq(available, 1, n - 1), used |-> n, done |-> TRUE]
        ELSE [append |-> available, used |-> Len(available), done |-> FALSE]

\* main.rs:41-50: what is appended to buf, and (done, used)
Scan(available) ==
    LET n == Memchr(Delim, available)
    IN  IF n > 0
        THEN [append |-> SubSeq(available, 1, n), used |-> n, done |-> TRUE]
        ELSE [append |-> available, used |-> Len(available), done |-> FALSE]

\* the caller calls read_until(r, b'\n', &mut buf); main.rs:33
Call(b) ==
    /\ rpc \in {"idle", "returned"}
    /\ result # "err"
    /\ Cardinality({n \in 1..Len(slices) : slices[n] = <<>>}) < MaxEofCalls
    /\ rpc' = "loop"
    /\ buf' = b
    /\ buf0' = b
    /\ read' = 0
    /\ iters' = 0
    /\ result' = "none"
    /\ UNCHANGED <<src, pos, avail, ret, slices, interrupts>>
    /\ UNCHANGED notReader

\* the same failure returned to the caller as any other error
FillInterruptedSurfaced ==
    /\ rpc = "loop"
    /\ avail = 0
    /\ interrupts < MaxInterrupts
    /\ interrupts' = interrupts + 1
    /\ rpc' = "returned"
    /\ result' = "err"
    /\ UNCHANGED <<src, pos, avail, buf, buf0, read, ret, slices, iters>>
    /\ UNCHANGED notReader

\* main.rs:38: fill_buf fails with ErrorKind::Interrupted; continue
FillInterrupted ==
    /\ rpc = "loop"
    /\ avail = 0
    /\ interrupts < MaxInterrupts
    /\ interrupts' = interrupts + 1
    /\ UNCHANGED <<src, pos, avail, buf, buf0, read, rpc, result, ret, slices, iters>>
    /\ UNCHANGED notReader

\* main.rs:39: fill_buf fails with another error; return Err(e)
FillError ==
    /\ rpc = "loop"
    /\ avail = 0
    /\ rpc' = "returned"
    /\ result' = "err"
    /\ UNCHANGED <<src, pos, avail, buf, buf0, read, ret, slices, iters, interrupts>>
    /\ UNCHANGED notReader

\* main.rs:35-56: one iteration in which fill_buf returns n bytes: those it
\* holds buffered, or else n bytes of the source (0 only at end-of-input)
Iterate(n) ==
    /\ rpc = "loop"
    /\ IF avail > 0 THEN n = avail
       ELSE IF pos = Len(src) THEN n = 0
       ELSE n \in 1..(Len(src) - pos)
    /\ LET scan == Scan(SubSeq(src, pos + 1, pos + n))
           appended == buf \o scan.append
       IN  /\ buf' = appended
           /\ pos' = pos + scan.used
           /\ avail' = n - scan.used
           /\ read' = read + scan.used
           /\ iters' = iters + 1
           /\ IF scan.done \/ scan.used = 0
              THEN /\ rpc' = "returned"
                   /\ result' = "ok"
                   /\ ret' = read + scan.used
                   /\ slices' = Append(slices, SubSeq(appended, Len(buf0) + 1, Len(appended)))
              ELSE UNCHANGED <<rpc, result, ret, slices>>
    /\ UNCHANGED <<src, buf0, interrupts>>
    /\ UNCHANGED notReader

\* one pass through the loop of read_until
LoopStep ==
    \/ FillInterrupted
    \/ FillError
    \/ \E n \in 0..MaxSrcLen : Iterate(n)

ReaderNext ==
    \/ \E b \in Buf0s : Call(b)
    \/ LoopStep

(***************************************************************************)
(* File names are byte strings; Path::extension and with_file_name.        *)
(***************************************************************************)
Dot == 46
\* "zst", "freqs", ".users.freqs", ".users.freqs.migrated", ".txt"
ZstExt == <<122, 115, 116>>
FreqsExt == <<102, 114, 101, 113, 115>>
UsersFreqs == <<Dot, 117, 115, 101, 114, 115, Dot>> \o FreqsExt
Migrated == <<Dot, 109, 105, 103, 114, 97, 116, 101, 100>>
TxtExt == <<116, 120, 116>>

\* Path::extension: what follows the last dot of the file name; none (here
\* the empty string) when there is no dot or the only dot begins the name
Extension(name) ==
    LET dots == {n \in 1..Len(name) : name[n] = Dot}
        last == CHOOSE n \in dots : \A m \in dots : m <= n
    IN  IF dots = {} \/ dots = {1} THEN <<>>
        ELSE SubSeq(name, last + 1, Len(name))

\* main.rs:271-276 with the suffix ".freqs": not the path run_for_file writes
FreqsPathOther(name) == name \o <<Dot>> \o FreqsExt

\* main.rs:271-276: the path main checks, <name>.users.freqs
FreqsPath(name) == name \o UsersFreqs

\* main.rs:207-214: the path run_for_file creates, <name>.users.freqs
OutputPath(name) == name \o UsersFreqs

\* migrate.rs:66-73: the path the migrator creates, <name>.users.freqs.migrated
MigratedPath(name) == name \o UsersFreqs \o Migrated

\* the file names tried: "a", "b", ... with an extension
Stem(n) == <<96 + n>>
BuilderInput(n) == Stem(n) \o <<Dot>> \o ZstExt
MigratorInput(n) == OutputPath(BuilderInput(n))

\* disk with `content` written at `path`
Put(d, path, content) ==
    [p \in DOMAIN d \cup {path} |-> IF p = path THEN content ELSE d[p]]

(***************************************************************************)
(* The builder's main (main.rs:245-284).  The content of a file is a       *)
(* label: an input, another file, an output found in the directory, or an  *)
(* output written by the run of that number.                               *)
(***************************************************************************)
\* the directories tried: any of the inputs, any of their outputs (left by an
\* earlier, possibly partial, run), and a file that is no input
BuilderDisks ==
    {[p \in ins \cup outs \cup other |->
         IF p \in ins THEN <<"input">>
         ELSE IF p \in outs THEN <<"found">> ELSE <<"other">>] :
       ins \in SUBSET {BuilderInput(n) : n \in 1..MaxFiles},
       outs \in SUBSET {OutputPath(BuilderInput(n)) : n \in 1..MaxFiles},
       other \in SUBSET {Stem(1) \o <<Dot>> \o TxtExt}}

MainInit ==
    /\ disk \in BuilderDisks
    /\ files = <<>>
    /\ mpc = "start"
    /\ run = 1
    /\ ran = [r \in 1..MaxRuns |-> {}]
    /\ completed = {}
    /\ ran_existing = FALSE
    /\ cur = <<>>
    /\ mbuf = <<>>
    /\ poo = <<>>
    /\ done = {}
    /\ created = {}

\* main.rs:251-265: read_dir, keep the .zst files, sort by file name
BScan ==
    /\ mpc = "start"
    /\ files' = SortedKeys({f \in DOMAIN disk : Extension(f) = ZstExt})
    /\ mpc' = "each"
    /\ UNCHANGED <<disk, run, ran, completed, ran_existing, cur, mbuf, poo, done, created>>
    /\ UNCHANGED notFs

\* main.rs:278-280: the output exists; return from the closure
BSkip ==
    /\ mpc = "each"
    /\ files # <<>>
    /\ FreqsPath(Head(files)) \in DOMAIN disk
    /\ files' = Tail(files)
    /\ UNCHANGED <<disk, mpc, run, ran, completed, ran_existing, cur, mbuf, poo, done, created>>
    /\ UNCHANGED notFs

\* main.rs:282: run_for_file(&f.path()), which returns having created and
\* written the output (main.rs:207-242)
BRun ==
    /\ mpc = "each"
    /\ files # <<>>
    /\ FreqsPath(Head(files)) \notin DOMAIN disk
    /\ ran' = [ran EXCEPT ![run] = @ \cup {Head(files)}]
    /\ ran_existing' = (ran_existing \/ OutputPath(Head(files)) \in DOMAIN disk)
    /\ disk' = Put(disk, OutputPath(Head(files)), <<"written", run>>)
    /\ files' = Tail(files)
    /\ UNCHANGED <<mpc, run, completed, cur, mbuf, poo, done, created>>
    /\ UNCHANGED notFs

\* main.rs:282: run_for_file panics in an unwrap before it creates the output
\* (main.rs:66, 104-106, 207-216); the process ends
BRunPanics ==
    /\ mpc = "each"
    /\ files # <<>>
    /\ FreqsPath(Head(files)) \notin DOMAIN disk
    /\ ran' = [ran EXCEPT ![run] = @ \cup {Head(files)}]
    /\ ran_existing' = (ran_existing \/ OutputPath(Head(files)) \in DOMAIN disk)
    /\ mpc' = "panicked"
    /\ UNCHANGED <<disk, files, run, completed, cur, mbuf, poo, done, created>>
    /\ UNCHANGED notFs

\* main.rs:282: run_for_file panics in an unwrap after it created the output
\* (main.rs:216); the process ends
BRunPanicsLate ==
    /\ mpc = "each"
    /\ files # <<>>
    /\ FreqsPath(Head(files)) \notin DOMAIN disk
    /\ ran' = [ran EXCEPT ![run] = @ \cup {Head(files)}]
    /\ ran_existing' = (ran_existing \/ OutputPath(Head(files)) \in DOMAIN disk)
    /\ disk' = Put(disk, OutputPath(Head(files)), <<"written", run>>)
    /\ mpc' = "panicked"
    /\ UNCHANGED <<files, run, completed, cur, mbuf, poo, done, created>>
    /\ UNCHANGED notFs

\* main.rs:284: for_each is over; main returns
BExit ==
    /\ mpc = "each"
    /\ files = <<>>
    /\ mpc' = "exited"
    /\ completed' = completed \cup {run}
    /\ UNCHANGED <<disk, files, run, ran, ran_existing, cur, mbuf, poo, done, created>>
    /\ UNCHANGED notFs

\* the builder is run again on the directory as it is
BRerun ==
    /\ mpc \in {"exited", "panicked"}
    /\ run < MaxRuns
    /\ run' = run + 1
    /\ mpc' = "start"
    /\ files' = <<>>
    /\ UNCHANGED <<disk, ran, completed, ran_existing, cur, mbuf, poo, done, created>>
    /\ UNCHANGED notFs

MainNext ==
    \/ BScan
    \/ BSkip
    \/ BRun
    \/ BRunPanics
    \/ BRunPanicsLate
    \/ BExit
    \/ BRerun

(***************************************************************************)
(* The Corpus codec (serializer::serialize_with_writer, deserialize), from *)
(* spec 4.5: the outer entry count, then for each author in ascending      *)
(* order its byte length, its bytes and its inner entry count, then for    *)
(* each word in ascending order its byte length, its bytes and its 8-byte  *)
(* count.  Every integer is 8 bytes, little-endian.                        *)
(***************************************************************************)
RECURSIVE SerializeWords(_, _)
SerializeWords(freqs, order) ==
    IF order = <<>> THEN <<>>
    ELSE ToLE(Len(order[1]), U64Bytes) \o order[1] \o freqs[order[1]]
         \o SerializeWords(freqs, Tail(order))

RECURSIVE SerializeAuthors(_, _)
SerializeAuthors(corpus, order) ==
    IF order = <<>> THEN <<>>
    ELSE ToLE(Len(order[1]), U64Bytes) \o order[1]
         \o ToLE(Cardinality(DOMAIN corpus[order[1]]), U64Bytes)
         \o SerializeWords(corpus[order[1]], SortedKeys(DOMAIN corpus[order[1]]))
         \o SerializeAuthors(corpus, Tail(order))

\* serialize_with_writer: the bytes written to the sink
Serialize(corpus) ==
    ToLE(Cardinality(DOMAIN corpus), U64Bytes)
    \o SerializeAuthors(corpus, SortedKeys(DOMAIN corpus))

\* an 8-byte integer at offset p: [ok, value (a number), next]; a value too
\* large to be a length of the input fails like a truncated input
ReadInt(bytes, p) ==
    IF p + U64Bytes > Len(bytes) THEN [ok |-> FALSE, value |-> 0, next |-> p]
    ELSE LET b == SubSeq(bytes, p + 1, p + U64Bytes)
         IN  IF \E n \in 4..U64Bytes : b[n] # 0
             THEN [ok |-> FALSE, value |-> 0, next |-> p]
             ELSE [ok |-> TRUE, value |-> U64ToNat(SubSeq(b, 1, 3)), next |-> p + U64Bytes]

\* a length-prefixed byte string at offset p: [ok, value, next]
ReadBytes(bytes, p) ==
    LET len == ReadInt(bytes, p)
    IN  IF ~len.ok \/ len.next + len.value > Len(bytes)
        THEN [ok |-> FALSE, value |-> <<>>, next |-> p]
        ELSE [ok |-> TRUE, value |-> SubSeq(bytes, len.next + 1, len.next + len.value),
              next |-> len.next + len.value]

\* n words at offset p, added to freqs: [ok, value, next]
RECURSIVE ReadWords(_, _, _, _)
ReadWords(bytes, p, n, freqs) ==
    IF n = 0 THEN [ok |-> TRUE, value |-> freqs, next |-> p]
    ELSE LET word == ReadBytes(bytes, p)
         IN  IF ~word.ok \/ word.next + U64Bytes > Len(bytes)
             THEN [ok |-> FALSE, value |-> freqs, next |-> p]
             ELSE ReadWords(bytes, word.next + U64Bytes, n - 1,
                            [w \in DOMAIN freqs \cup {word.value} |->
                                IF w = word.value
                                THEN SubSeq(bytes, word.next + 1, word.next + U64Bytes)
                                ELSE freqs[w]])

\* n authors at offset p, added to corpus: [ok, value, next]
RECURSIVE ReadAuthors(_, _, _, _)
ReadAuthors(bytes, p, n, corpus) ==
    IF n = 0 THEN [ok |-> TRUE, value |-> corpus, next |-> p]
    ELSE LET author == ReadBytes(bytes, p)
             count == ReadInt(bytes, author.next)
             words == ReadWords(bytes, count.next, count.value, MapNew)
         IN  IF ~author.ok \/ ~count.ok \/ ~words.ok
             THEN [ok |-> FALSE, value |-> corpus, next |-> p]
             ELSE ReadAuthors(bytes, words.next, n - 1,
                              [a \in DOMAIN corpus \cup {author.value} |->
                                  IF a = author.value THEN words.value ELSE corpus[a]])

\* deserialize: [ok, value]
Deserialize(bytes) ==
    LET count == ReadInt(bytes, 0)
        authors == ReadAuthors(bytes, count.next, count.value, MapNew)
    IN  IF count.ok /\ authors.ok
        THEN [ok |-> TRUE, value |-> authors.value]
        ELSE [ok |-> FALSE, value |-> MapNew]

\* the entries of `bytes` read in full before the first that cannot be
Salvaged(bytes) ==
    LET count == ReadInt(bytes, 0)
    IN  IF count.ok THEN ReadAuthors(bytes, count.next, count.value, MapNew).value
        ELSE MapNew

(***************************************************************************)
(* The compression container (zstd) around the codec's bytes: whether it   *)
(* decompresses, the bytes in it, and whether it was finished.             *)
(***************************************************************************)
\* zstd::stream::Encoder::new(&mut file, 10) on a file just created
NewContainer == [valid |-> TRUE, data |-> <<>>, finished |-> FALSE]

\* a finished container holding `bytes`
Compressed(bytes) == [valid |-> TRUE, data |-> bytes, finished |-> TRUE]

\* a file that is no zstd stream
Corrupt == [valid |-> FALSE, data |-> <<>>, finished |-> FALSE]

\* zstd::decode_all(&mut file): [ok, value]
DecodeAll(content) ==
    IF content.valid /\ content.finished
    THEN [ok |-> TRUE, value |-> content.data]
    ELSE [ok |-> FALSE, value |-> <<>>]

(***************************************************************************)
(* The migrator (migrate.rs).                                              *)
(***************************************************************************)
\* the Corpuses the input files tried hold: the empty one; one author with
\* one word; keys that are no text (0xFF 0x00, 0x80, the empty word) with
\* counts at and next to u64::MAX; an author without words beside an author
\* with a count of more than one byte
SampleCorpora ==
    { MapNew,
      (<<117>> :> (<<97>> :> U64(1))),
      (<<255, 0>> :> ((<<128>> :> U64Max) @@ (<<>> :> U64MaxLess1))),
      ((<<117>> :> MapNew) @@ (<<118>> :> (<<98>> :> U64(258)))) }

\* the files the builder wrote from them
SampleFiles == {Compressed(Serialize(c)) : c \in SampleCorpora}

\* `bytes` without its last byte
Truncated(bytes) == SubSeq(bytes, 1, Len(bytes) - 1)

\* payloads that are no encoded Corpus: an outer count cut short; an entry
\* cut short inside its 8-byte count; an outer count of two before one author
InvalidPayloads ==
    { Truncated(Serialize(MapNew)),
      Truncated(Serialize(<<117>> :> (<<97>> :> U64(1)))),
      ToLE(2, U64Bytes) \o SerializeAuthors(<<117>> :> (<<97>> :> U64(1)), <<(<<117>>)>>) }

\* files that decompress to them
InvalidFiles == {Compressed(b) : b \in InvalidPayloads}

\* the directories tried: each input absent, corrupt, or holding a sample;
\* any of the outputs already there
MigratorDisks ==
    {[p \in {MigratorInput(n) : n \in DOMAIN ins} \cup {MigratedPath(MigratorInput(n)) : n \in outs} |->
         IF \E n \in DOMAIN ins : p = MigratorInput(n)
         THEN ins[CHOOSE n \in DOMAIN ins : p = MigratorInput(n)]
         ELSE Compressed(Serialize(MapNew))] :
       ins \in UNION {[present -> SampleFiles \cup InvalidFiles \cup {Corrupt}] : present \in SUBSET (1..MaxFiles)},
       outs \in SUBSET (1..MaxFiles)}

\* the byte counts after which a write is made to fail
WriteCuts == {0, 1, U64Bytes, 2 * U64Bytes + 1}

MigrateInit ==
    /\ disk \in MigratorDisks
    /\ files = <<>>
    /\ mpc = "start"
    /\ run = 1
    /\ ran = <<>>
    /\ completed = {}
    /\ ran_existing = FALSE
    /\ cur = <<>>
    /\ mbuf = <<>>
    /\ poo = <<>>
    /\ done = {}
    /\ created = {}

\* migrate.rs:110-124: read_dir, keep the .freqs files, sort by file name
MScan ==
    /\ mpc = "start"
    /\ files' = SortedKeys({f \in DOMAIN disk : Extension(f) = FreqsExt})
    /\ mpc' = "each"
    /\ UNCHANGED <<disk, run, ran, completed, ran_existing, cur, mbuf, poo, done, created>>
    /\ UNCHANGED notFs

\* migrate.rs:156, 35-46: run_for_file; decode_all fails; print and return
MDecodeFails ==
    /\ mpc = "each"
    /\ files # <<>>
    /\ ~DecodeAll(disk[Head(files)]).ok
    /\ done' = done \cup {Head(files)}
    /\ files' = Tail(files)
    /\ UNCHANGED <<disk, mpc, run, ran, completed, ran_existing, cur, mbuf, poo, created>>
    /\ UNCHANGED notFs

\* migrate.rs:156, 35-46: run_for_file; decode_all returns buf
MDecode ==
    /\ mpc = "each"
    /\ files # <<>>
    /\ DecodeAll(disk[Head(files)]).ok
    /\ cur' = Head(files)
    /\ mbuf' = DecodeAll(disk[Head(files)]).value
    /\ mpc' = "decoded"
    /\ UNCHANGED <<disk, files, run, ran, completed, ran_existing, poo, done, created>>
    /\ UNCHANGED notFs

\* migrate.rs:49-64: poo = deserialize(&buf, ..), the input holding an
\* encoded Corpus
MDeserialize ==
    /\ mpc = "decoded"
    /\ Deserialize(mbuf).ok
    /\ poo' = Deserialize(mbuf).value
    /\ mpc' = "deserialized"
    /\ UNCHANGED <<disk, files, run, ran, completed, ran_existing, cur, mbuf, done, created>>
    /\ UNCHANGED notFs

\* migrate.rs:49-64: deserialize(&buf, ..) on bytes that are no encoded
\* Corpus; the call aborts the process
MDeserializePanics ==
    /\ mpc = "decoded"
    /\ ~Deserialize(mbuf).ok
    /\ mpc' = "panicked"
    /\ UNCHANGED <<disk, files, run, ran, completed, ran_existing, cur, mbuf, poo, done, created>>
    /\ UNCHANGED notFs

\* migrate.rs:49-64: deserialize(&buf, ..) on bytes that are no encoded
\* Corpus; what the call returns is bound to poo and used as a PooMap
\* (migrate.rs:77, 80), there is no error branch
MDeserializeInvalid ==
    /\ mpc = "decoded"
    /\ ~Deserialize(mbuf).ok
    /\ poo' = Salvaged(mbuf)
    /\ mpc' = "deserialized"
    /\ UNCHANGED <<disk, files, run, ran, completed, ran_existing, cur, mbuf, done, created>>
    /\ UNCHANGED notFs

\* migrate.rs:66-75: File::create and Encoder::new
MCreate ==
    /\ mpc = "deserialized"
    /\ disk' = Put(disk, MigratedPath(cur), NewContainer)
    /\ created' = created \cup {MigratedPath(cur)}
    /\ mpc' = "created"
    /\ ser_result' = "none"
    /\ finish_calls' = 0
    /\ UNCHANGED <<files, run, ran, completed, ran_existing, cur, mbuf, poo, done>>
    /\ UNCHANGED <<driverVars, readerVars, tiVars, tokVars>>

\* migrate.rs:79-94 passing a new, empty map for poo
EncodeCallFresh(corpus) == Serialize(MapNew)

\* migrate.rs:79-94: serialize_with_writer(&poo, &mut encoder, ..)
EncodeCall(corpus) == Serialize(corpus)

\* migrate.rs:79-97: the Corpus is written into the container
MSerialize ==
    /\ mpc = "created"
    /\ disk' = Put(disk, MigratedPath(cur),
                   [disk[MigratedPath(cur)] EXCEPT !.data = EncodeCall(poo)])
    /\ ser_result' = "ok"
    /\ mpc' = "serialized"
    /\ UNCHANGED finish_calls
    /\ UNCHANGED <<files, run, ran, completed, ran_existing, cur, mbuf, poo, done, created>>
    /\ UNCHANGED <<driverVars, readerVars, tiVars, tokVars>>

\* migrate.rs:79-97: a write fails after n bytes; serialize_with_writer
\* returns Err, map_err prints it and the result is dropped
MSerializeFails(n) ==
    /\ mpc = "created"
    /\ n < Len(EncodeCall(poo))
    /\ disk' = Put(disk, MigratedPath(cur),
                   [disk[MigratedPath(cur)] EXCEPT !.data = SubSeq(EncodeCall(poo), 1, n)])
    /\ ser_result' = "err"
    /\ mpc' = "serialized"
    /\ UNCHANGED finish_calls
    /\ UNCHANGED <<files, run, ran, completed, ran_existing, cur, mbuf, poo, done, created>>
    /\ UNCHANGED <<driverVars, readerVars, tiVars, tokVars>>

\* migrate.rs:99-102: encoder.finish() returns Ok or Err (printed);
\* run_for_file returns
MFinish(ok) ==
    /\ mpc = "serialized"
    /\ disk' = Put(disk, MigratedPath(cur),
                   [disk[MigratedPath(cur)] EXCEPT !.finished = ok])
    /\ finish_calls' = finish_calls + 1
    /\ done' = done \cup {cur}
    /\ files' = Tail(files)
    /\ mpc' = "each"
    /\ UNCHANGED ser_result
    /\ UNCHANGED <<run, ran, completed, ran_existing, cur, mbuf, poo, created>>
    /\ UNCHANGED <<driverVars, readerVars, tiVars, tokVars>>

\* migrate.rs:161: for_each is over; main returns
MExit ==
    /\ mpc = "each"
    /\ files = <<>>
    /\ mpc' = "exited"
    /\ completed' = completed \cup {run}
    /\ UNCHANGED <<disk, files, run, ran, ran_existing, cur, mbuf, poo, done, created>>
    /\ UNCHANGED notFs

MigrateNext ==
    \/ MScan
    \/ MDecodeFails
    \/ MDecode
    \/ MDeserialize
    \/ MDeserializePanics
    \/ MDeserializeInvalid
    \/ MCreate
    \/ MSerialize
    \/ \E n \in WriteCuts : MSerializeFails(n)
    \/ \E ok \in BOOLEAN : MFinish(ok)
    \/ MExit

(***************************************************************************)
(* TextItem::ingest on counts near u64::MAX.  `+=` on u64 panics on        *)
(* overflow when the build checks overflow (a debug build) and wraps when  *)
(* it does not (a release build).                                          *)
(***************************************************************************)
\* the counts tried: 1, u64::MAX - 1, u64::MAX
BigCounts == {U64(1), U64MaxLess1, U64Max}

\* the WordCounts tried: over the words "a", "b"
BigWordCounts ==
    UNION {[ws -> BigCounts] : ws \in SUBSET {<<97>>, <<98>>}}

\* the maps tried: no author, or the author "u"
BigMaps == {MapNew} \cup {(<<117>> :> m) : m \in BigWordCounts}

\* some `+=` of ingest(self_freqs, other) overflows
IngestOverflows(self_freqs, other) ==
    \E a \in DOMAIN self_freqs \cap DOMAIN other :
        \E w \in DOMAIN self_freqs[a] \cap DOMAIN other[a] :
            Overflows(self_freqs[a][w], other[a][w])

TiInit ==
    /\ ti_freqs \in BigMaps
    /\ ti_before = <<>>
    /\ ti_other = <<>>
    /\ ti_calls = 0
    /\ ti_panicked = FALSE

\* text_item.rs:30-44: ingest returns (no `+=` overflows, or the build wraps)
TiIngest(other) ==
    /\ ~ti_panicked
    /\ ti_calls < MaxMerges
    /\ ti_freqs' = ingest(ti_freqs, other)
    /\ ti_before' = ti_freqs
    /\ ti_other' = other
    /\ ti_calls' = ti_calls + 1
    /\ UNCHANGED ti_panicked
    /\ UNCHANGED notTi

\* text_item.rs:41: a `+=` overflows and the build checks overflow: panic
TiIngestPanics(other) ==
    /\ ~ti_panicked
    /\ ti_calls < MaxMerges
    /\ IngestOverflows(ti_freqs, other)
    /\ ti_panicked' = TRUE
    /\ ti_before' = ti_freqs
    /\ ti_other' = other
    /\ ti_calls' = ti_calls + 1
    /\ UNCHANGED ti_freqs
    /\ UNCHANGED notTi

TiNext ==
    \/ \E other \in BigMaps : TiIngest(other)
    \/ \E other \in BigMaps : TiIngestPanics(other)

(***************************************************************************)
(* TextItem::process_alt (text_item.rs:47-69) on its own.                  *)
(***************************************************************************)
\* the chars the texts tried are made of: "A", "a", "1", ",", " ", U+00C9
\* (an uppercase letter of two UTF-8 bytes) and U+00A0 (a whitespace that
\* is no ASCII)
TextChars == {65, 97, 49, 44, 32, 201, 160}

\* "Hello, World! 123"
HelloWorld ==
    <<72, 101, 108, 108, 111, 44, 32, 87, 111, 114, 108, 100, 33, 32, 49, 50, 51>>

\* the texts tried: every text of up to MaxTextLen of these chars, and
\* "Hello, World! 123"
Texts == SeqsUpTo(TextChars, MaxTextLen) \cup {HelloWorld}

TokInit ==
    /\ in_text \in Texts
    /\ tpc = "called"
    /\ word_count = <<>>

\* text_item.rs:47-69: the call returns
Tokenize ==
    /\ tpc = "called"
    /\ word_count' = process_alt(in_text)
    /\ tpc' = "returned"
    /\ UNCHANGED in_text
    /\ UNCHANGED notTok

TokNext == Tokenize

(***************************************************************************)
(* Specifications.                                                         *)
(***************************************************************************)
vars == <<driverVars, readerVars, fsVars, tiVars, tokVars, encVars>>

\* the builder's run_for_file on one file
Init == DriverInit /\ ReaderIdle /\ FsIdle /\ TiIdle /\ EncIdle /\ TokIdle

Next == DriverNext

Spec == Init /\ [][Next]_vars

\* a batch is being folded or reduced (main.rs:158-203)
Merging == pc \in {"Fold", "Reduce"}

\* the same, the threads running on: a step that can be taken is taken.
\* WF_vars(A) is []<>~ENABLED <<A>>_vars \/ []<><<A>>_vars.  While a batch
\* is folded or reduced a step is always possible (an item of todo to fold or
\* FoldDone, two partial maps to reduce or Ingest) and changes todo, partials
\* or pc, so for those steps ENABLED is written out as Merging.
SpecFair ==
    /\ Init /\ [][Next]_vars
    /\ WF_vars(~Merging /\ Next)
    /\ []<>~Merging \/ []<><<Merging /\ Next>>_vars

\* read_until called again and again on one source
InitReader == ReaderInit /\ DriverIdle /\ FsIdle /\ TiIdle /\ EncIdle /\ TokIdle

SpecReader == InitReader /\ [][ReaderNext]_vars

\* the same, the thread inside read_until running on: a pass through the loop
\* that can be made is made
SpecReaderFair == InitReader /\ [][ReaderNext]_vars /\ WF_vars(LoopStep)

\* the builder's main, run up to MaxRuns times on one directory
InitMain == MainInit /\ DriverIdle /\ ReaderIdle /\ TiIdle /\ EncIdle /\ TokIdle

SpecMain == InitMain /\ [][MainNext]_vars

\* the migrator's main, run once on one directory
InitMigrate == MigrateInit /\ DriverIdle /\ ReaderIdle /\ TiIdle /\ EncIdle /\ TokIdle

SpecMigrate == InitMigrate /\ [][MigrateNext]_vars

\* TextItem::ingest called up to MaxMerges times on one TextItem
InitIngest == TiInit /\ DriverIdle /\ ReaderIdle /\ FsIdle /\ EncIdle /\ TokIdle

SpecIngest == InitIngest /\ [][TiNext]_vars


\* either tool's run_for_file: the builder's on one file, or the migrator's
\* on the files of one directory
InitTools ==
    /\ \/ DriverInit /\ FsIdle
       \/ MigrateInit /\ DriverIdle
    /\ ReaderIdle /\ TiIdle /\ EncIdle /\ TokIdle

ToolsNext == DriverNext \/ MigrateNext

SpecTools == InitTools /\ [][ToolsNext]_vars

\* TextItem::process_alt called on one text
InitTokenize == TokInit /\ DriverIdle /\ ReaderIdle /\ FsIdle /\ TiIdle /\ EncIdle

SpecTokenize == InitTokenize /\ [][TokNext]_vars

(***************************************************************************)
(* The sum of a sequence of records, computed on numbers: for each author  *)
(* the words of the author's bodies, each with the sum of its counts.      *)
(***************************************************************************)
\* the counts of each body tried, as numbers
BodyCounts ==
    [t \in Bodies |-> [w \in DOMAIN BodyFreqs[t] |-> U64ToNat(BodyFreqs[t][w])]]

AuthorsOf(recs) == {AuthorKey[recs[n][1]] : n \in 1..Len(recs)}

WordsOf(recs, a) ==
    UNION {DOMAIN BodyCounts[recs[n][2]] :
              n \in {m \in 1..Len(recs) : AuthorKey[recs[m][1]] = a}}

RECURSIVE SumCount(_, _, _)
SumCount(recs, a, w) ==
    IF recs = <<>> THEN 0
    ELSE LET freqs == BodyCounts[recs[1][2]]
         IN  (IF AuthorKey[recs[1][1]] = a /\ w \in DOMAIN freqs THEN freqs[w] ELSE 0)
             + SumCount(Tail(recs), a, w)

CorpusOf(recs) ==
    [a \in AuthorsOf(recs) |-> [w \in WordsOf(recs, a) |-> U64(SumCount(recs, a, w))]]

\* the partial maps combined left to right
RECURSIVE ReduceAll(_)
ReduceAll(ps) ==
    IF ps = <<>> THEN MapNew
    ELSE ReduceOp(ReduceAll(SubSeq(ps, 1, Len(ps) - 1)), ps[Len(ps)])

(***************************************************************************)
(* Claims about the builder's run_for_file.                                *)
(***************************************************************************)
\* C1 (as claimed): when the loop was left over the error budget and every
\* decoded record preceded the first soft failure (N valid lines, then more
\* than ErrThreshold malformed or empty lines), the Corpus is the sum of
\* exactly those N records.
C1_BudgetKeepsValidPrefix ==
    (exit = "budget" /\ ~late_valid) => word_freqs = CorpusOf(accepted)

\* C2: whatever the batches, the split of a batch among the workers and the
\* order in which their partial maps are combined, the partial maps of a
\* batch add up to the sum of the batch's records, and the global Corpus is
\* the sum of the records of the batches ingested.
C2_MergeInvariance ==
    /\ word_freqs = CorpusOf(merged)
    /\ pc = "Reduce" => ReduceAll(partials) = CorpusOf(comments)

\* a second batch, split between two workers that both hold the same author
\* and word, is being reduced
C2_Witness ==
    /\ pc = "Reduce"
    /\ merged # <<>>
    /\ Len(partials) >= 2
    /\ \E a \in DOMAIN partials[1] \cap DOMAIN partials[2] :
           DOMAIN partials[1][a] \cap DOMAIN partials[2][a] # {}

\* C3 (as claimed): after an I/O error the Corpus handed to the encoder is
\* the sum of every record decoded before the error.
C3_IoAbortKeepsAccepted ==
    (pc = "Done" /\ exit = "io") => encoded = CorpusOf(accepted)

(***************************************************************************)
(* Claims about read_until.                                                *)
(***************************************************************************)
RECURSIVE Concat(_)
Concat(ss) == IF ss = <<>> THEN <<>> ELSE ss[1] \o Concat(Tail(ss))

\* the bytes of s after the first `start`, up to and including the first
\* delimiter among them, or all of them when there is none
NextFrame(s, start) ==
    LET rest == SubSeq(s, start + 1, Len(s))
        ds == {n \in 1..Len(rest) : rest[n] = Delim}
    IN  IF ds = {} THEN rest
        ELSE SubSeq(rest, 1, CHOOSE n \in ds : \A m \in ds : n <= m)

\* C4: a call that returns Ok(count) has appended to buf exactly the next
\* frame of the source (through the next delimiter, or what is left of the
\* source), count is its length, count is 0 only at end-of-input, the
\* delimiter is nowhere but at the end of the frame, and the frames returned
\* so far, concatenated, are the bytes of the source consumed so far (all of
\* the source once 0 is returned).
C4_FrameReaderResult ==
    (rpc = "returned" /\ result = "ok") =>
        LET slice == slices[Len(slices)]
            before == Concat(SubSeq(slices, 1, Len(slices) - 1))
        IN  /\ buf = buf0 \o slice
            /\ ret = Len(slice)
            /\ slice = NextFrame(src, Len(before))
            /\ ret = 0 => pos = Len(src)
            /\ \A n \in 1..(Len(slice) - 1) : slice[n] # Delim
            /\ Concat(slices) = SubSeq(src, 1, pos)
            /\ ret = 0 => Concat(slices) = src

\* a second frame, delimiter-terminated and put together from two short
\* reads, appended to a buf that already held bytes
C4_Witness ==
    /\ rpc = "returned" /\ result = "ok"
    /\ Len(slices) = 2
    /\ iters >= 2
    /\ ret >= 2
    /\ buf0 # <<>>
    /\ buf[Len(buf)] = Delim

\* C5: a fill_buf failure of kind Interrupted changes nothing of the call
\* (no byte consumed or appended, nothing returned), and every call of
\* read_until returns, the interrupted failures being at most MaxInterrupts.
C5_NeverStalls ==
    /\ [][interrupts' # interrupts =>
            UNCHANGED <<pos, avail, buf, read, rpc, result, ret, slices>>]_vars
    /\ (rpc = "loop") ~> (rpc = "returned")

\* a call that was interrupted as often as can be has returned a frame
C5_Witness ==
    /\ rpc = "returned" /\ result = "ok"
    /\ Len(slices) = 1
    /\ interrupts = MaxInterrupts
    /\ ret >= 1

(***************************************************************************)
(* Claims about the builder's main.                                        *)
(***************************************************************************)
\* C7: run_for_file is never called on a file whose output path exists, and
\* a run that follows a run in which main returned passes no file to
\* run_for_file and writes no output.
C7_BuilderIdempotentResume ==
    /\ ~ran_existing
    /\ \A r \in completed :
          r + 1 <= run =>
              /\ ran[r + 1] = {}
              /\ \A p \in DOMAIN disk : disk[p] # <<"written", r + 1>>

\* the second run is over, after a first run that processed a file and
\* skipped another, and returned
C7_Witness ==
    /\ run = 2
    /\ mpc = "exited"
    /\ completed = {1, 2}
    /\ ran[1] # {}
    /\ \E p \in DOMAIN disk : disk[p] = <<"found">> /\ Extension(p) = FreqsExt

(***************************************************************************)
(* Claims about the migrator and the codec.                                *)
(***************************************************************************)
\* C6 (as claimed): every input file that was opened has its output file
\* created, whichever way its processing ended; here, every file the
\* migrator's run_for_file has returned from.
C6_OpenedFileIsEncoded ==
    \A f \in done : MigratedPath(f) \in created

\* C8 (as claimed): the migrator does not process (decode) a file whose
\* output path <name>.users.freqs.migrated exists.
C8_MigratorSkipsExisting ==
    mpc = "decoded" => MigratedPath(cur) \notin DOMAIN disk

C11_DecodeFailureIsErrorValue ==
    /\ mpc # "panicked"
    /\ mpc \in {"deserialized", "created", "serialized"} => Deserialize(mbuf).ok

\* C12: in the builder and in the migrator, finish is called exactly once
\* on the encoder of the destination file on every path that follows its
\* creation, whether serialize_with_writer returned Ok or Err: never before
\* serialize_with_writer has returned, never twice, and once by the time
\* run_for_file has returned.
C12_FinishCalledOnce ==
    /\ finish_calls <= 1
    /\ pc \in {"Created", "Serialized"} => finish_calls = 0
    /\ mpc \in {"created", "serialized"} => finish_calls = 0
    /\ pc = "Done" => finish_calls = 1
    /\ cur \in done => finish_calls = 1

\* the builder's run_for_file has returned after serialize_with_writer
\* returned an error
C12_Witness ==
    /\ pc = "Done"
    /\ ser_result = "err"
    /\ finish_calls = 1

(***************************************************************************)
(* Claims about the tokenizer.                                             *)
(***************************************************************************)
\* the text with every char deleted that is neither alphanumeric nor
\* whitespace, in lowercase
Cleaned(t) ==
    LET kept == {n \in 1..Len(t) : IsAlphanumeric(t[n]) \/ IsWhitespace(t[n])}
        nth(m) == CHOOSE n \in kept : Cardinality({j \in kept : j < n}) = m - 1
    IN  [m \in 1..Cardinality(kept) |-> LowerChar(t[nth(m)])]

\* the tokens of s, each as the pair of its first and last position: the
\* maximal runs of chars that are no whitespace
TokenSpans(s) ==
    {sp \in (1..Len(s)) \X (1..Len(s)) :
        /\ sp[1] <= sp[2]
        /\ \A n \in sp[1]..sp[2] : ~IsWhitespace(s[n])
        /\ sp[1] = 1 \/ IsWhitespace(s[sp[1] - 1])
        /\ sp[2] = Len(s) \/ IsWhitespace(s[sp[2] + 1])}

\* the bytes of the token at sp
TokenAt(s, sp) == AsBytes(SubSeq(s, sp[1], sp[2]))

\* the sum of the counts of a WordCount
RECURSIVE SumOfCounts(_, _)
SumOfCounts(freqs, keys) ==
    IF keys = {} THEN 0
    ELSE LET w == CHOOSE x \in keys : TRUE
         IN  U64ToNat(freqs[w]) + SumOfCounts(freqs, keys \ {w})

\* C13: process_alt returns the WordCount that maps each token of the text
\* to the number of its occurrences, the tokens being what splitting on runs
\* of whitespace leaves of the text once every char that is neither
\* alphanumeric nor whitespace is deleted and the rest is lowercased; no key
\* is empty, the counts add up to the number of tokens, and
\* "Hello, World! 123" gives hello:1, world:1, 123:1.
C13_TokenizerResult ==
    tpc = "returned" =>
        LET s == Cleaned(in_text)
            spans == TokenSpans(s)
        IN  /\ DOMAIN word_count = {TokenAt(s, sp) : sp \in spans}
            /\ \A w \in DOMAIN word_count :
                  word_count[w] = U64(Cardinality({sp \in spans : TokenAt(s, sp) = w}))
            /\ <<>> \notin DOMAIN word_count
            /\ SumOfCounts(word_count, DOMAIN word_count) = Cardinality(spans)
            /\ in_text = HelloWorld =>
                  word_count = (<<104, 101, 108, 108, 111>> :> U64(1))
                               @@ (<<119, 111, 114, 108, 100>> :> U64(1))
                               @@ (<<49, 50, 51>> :> U64(1))

\* process_alt has returned from a text that holds a token twice, in
\* different case
C13_Witness ==
    /\ tpc = "returned"
    /\ in_text = <<65, 32, 97>>
    /\ word_count = (<<97>> :> U64(2))

(***************************************************************************)
(* Claims about the counters.                                              *)
(***************************************************************************)
\* a + c, saturating at u64::MAX
SaturatingAdd(a, c) == IF Overflows(a, c) THEN U64Max ELSE WrappingAdd(a, c)

\* the count of word w of author a in a map, 0 when it holds none
CountIn(map, a, w) ==
    IF a \in DOMAIN map /\ w \in DOMAIN map[a] THEN map[a][w] ELSE U64(0)

\* C9 (as claimed): an increment of a count saturates at u64::MAX: after a
\* call of ingest every count of the argument has been added to the stored
\* count with the sum capped at u64::MAX, no stored count is smaller than
\* it was, and the call has not aborted.
C9_SaturatingCounters ==
    ti_calls > 0 =>
        /\ ~ti_panicked
        /\ \A a \in DOMAIN ti_other : \A w \in DOMAIN ti_other[a] :
              CountIn(ti_freqs, a, w)
                  = SaturatingAdd(CountIn(ti_before, a, w), ti_other[a][w])
        /\ \A a \in DOMAIN ti_before : \A w \in DOMAIN ti_before[a] :
              ~U64Less(CountIn(ti_freqs, a, w), ti_before[a][w])

(***************************************************************************)
(* Claims about the batches of the builder's run_for_file.                 *)
(***************************************************************************)
\* C14: ti.word_freqs is modified only by the step that calls ingest, which
\* is taken only once every item of the batch is folded and the partial maps
\* are reduced to one; a step of a worker leaves ti.word_freqs and the
\* partial maps of the other workers as they are; and a line is read only
\* when every batch read before has been merged.
C14_BarrierSingleWriter ==
    [][/\ word_freqs' # word_freqs =>
             /\ pc = "Reduce" /\ todo = <<>> /\ Len(partials) <= 1
             /\ pc' = "Reading"
             /\ word_freqs' = ingest(word_freqs, Reduced)
       /\ (pc = "Fold" /\ todo' # todo) =>
             /\ word_freqs' = word_freqs
             /\ \A n \in 1..Len(partials) :
                   n < Len(partials) => partials'[n] = partials[n]
       /\ (pc = "Reduce" /\ partials' # partials /\ pc' = "Reduce") =>
             word_freqs' = word_freqs
       /\ (accepted' # accepted \/ err_cnt' # err_cnt) =>
             /\ partials = <<>> /\ todo = <<>>
             /\ merged \o comments = accepted]_vars

\* a record of the second batch has been read, the first batch (of two
\* records) merged
C14_Witness ==
    /\ pc = "Reading"
    /\ Len(merged) = 2
    /\ Len(comments) = 1
    /\ word_freqs = CorpusOf(merged)
    /\ word_freqs # MapNew

(***************************************************************************)
(* Claims about the error budget and the end of reading.                   *)
(***************************************************************************)
\* loop 'a has been left
LoopOver == pc \in {"Encoding", "Created", "Serialized", "Done", "Panicked"}

\* C15: err_cnt is 0 before the first line and is the number of zero-length
\* lines and of lines that failed to decode read so far, each counted once
\* and nothing else counted; a line is read only while err_cnt is at most
\* ErrThreshold, err_cnt at most ErrThreshold does not end the reading, and
\* once err_cnt exceeds ErrThreshold (the 11th soft failure) the loop is
\* left and no line is read any more.
C15_ErrorBudgetAccounting ==
    /\ err_cnt = malformed + empty
    /\ ~LoopOver => err_cnt <= ErrThreshold
    /\ exit = "budget" <=> err_cnt > ErrThreshold
    /\ err_cnt > ErrThreshold => (LoopOver /\ err_cnt = ErrThreshold + 1)
    /\ (LoopOver /\ err_cnt <= ErrThreshold) => exit = "io"

\* the loop was left over the budget by lines of both kinds, with records
\* read between them
C15_Witness ==
    /\ exit = "budget"
    /\ malformed > 0
    /\ empty > 0
    /\ accepted # <<>>
    /\ late_valid

\* C16 (as claimed): when the file was read without I/O error and at most
\* ErrThreshold of its lines were malformed, the Corpus handed to the encoder
\* is the sum of every record of the file that decoded.
C16_MalformedOnlySkipped ==
    (pc = "Done" /\ exit # "io" /\ malformed <= ErrThreshold) =>
        encoded = CorpusOf(accepted)

\* C17: the batch loop ends and Encoding is reached, after at most
\* ErrThreshold + 1 reads at the end of the input (each gave a zero-length
\* line that was counted), and the loop was left either on an I/O error or
\* with err_cnt = ErrThreshold + 1, in no other way.
C17_ReadingEnds ==
    <>(/\ pc = "Encoding"
       /\ empty <= ErrThreshold + 1
       /\ eof => empty > 0
       /\ exit = "io" \/ (exit = "budget" /\ err_cnt = ErrThreshold + 1))

\* the loop was left after ErrThreshold + 1 reads at the end of an input of
\* nothing but records
C17_Witness ==
    /\ pc = "Encoding"
    /\ exit = "budget"
    /\ empty = ErrThreshold + 1
    /\ malformed = 0
    /\ Len(accepted) = MaxRecords

\* C18: the keys of the global Corpus are the authors of the records merged
\* so far, and a step never removes an author from the global Corpus or
\* from a worker's partial map (a reduce step moves the authors of one
\* partial map into another); an author whose bodies give no token is a key
\* with an empty WordCount.
C18_AuthorsKept ==
    /\ [](DOMAIN word_freqs = AuthorsOf(merged))
    /\ [][/\ DOMAIN word_freqs \subseteq DOMAIN word_freqs'
          /\ (pc = "Fold" /\ pc' = "Fold") =>
                \A n \in 1..Len(partials) : DOMAIN partials[n] \subseteq DOMAIN partials'[n]
          /\ (pc = "Reduce" /\ pc' = "Reduce") =>
                UNION {DOMAIN partials[n] : n \in 1..Len(partials)}
                    = UNION {DOMAIN partials'[n] : n \in 1..Len(partials')}
          /\ (pc = "Reduce" /\ pc' = "Reading") =>
                UNION {DOMAIN partials[n] : n \in 1..Len(partials)}
                    \subseteq DOMAIN word_freqs']_vars

\* an author all of whose bodies are "!" is in the global Corpus with an
\* empty WordCount, next to an author with words
C18_Witness ==
    /\ AuthorKey[<<117>>] \in DOMAIN word_freqs
    /\ word_freqs[AuthorKey[<<117>>]] = MapNew
    /\ AuthorKey[<<118>>] \in DOMAIN word_freqs
    /\ Len(merged) = 3

====
